---- MODULE Spec2Model ----
(***************************************************************************)
(* compliment_of_the_day: the scheduled generation job, the candidate      *)
(* pipeline of ComplimentGenerator, the compliments table, the delivery    *)
(* job and the command handlers, as state machines.                        *)
(*                                                                         *)
(*   Spec       bot/jobs.py generate_compliment, fired in job slots        *)
(*   SpecGen    compliment.py ComplimentGenerator.generate_compliment_for_ *)
(*              date, called with a target date as its signature requires  *)
(*   SpecStore  the Check and Persist steps of generate_compliment over    *)
(*              db/manager.py get_compliment / add_compliment, applied to  *)
(*              drawn inputs                                               *)
(*   SpecSend   bot/jobs.py send_compliment with the user_settings table   *)
(*   SpecSched  bot/handlers.py start / stop / settime / setlanguage and   *)
(*              the restart of bot/main.py over the job queue              *)
(*   SpecCmd    the same handlers for one chat, with every argument the   *)
(*              commands are tried with                                    *)
(*   SpecLoop   the generation and delivery triggers bot/main.py registers *)
(*              and the event loop their handlers execute on               *)
(*                                                                         *)
(* Each specification moves the variables of its own subsystem and leaves  *)
(* the others at their initial value.                                      *)
(***************************************************************************)
EXTENDS Integers, Sequences, FiniteSets, TLC

\* ------------------------------------------------------------------ bounds
\* Days the clock runs through (datetime.now(GMT).date()).
MaxDay == 2
\* Articles the news API returns at most (news.page_size, default 10).
MaxItems == 3
\* Jobs the queue holds at most under one name, of each kind.
MaxJobs == 3
\* Invocations of send_compliment in flight for one chat at most.
MaxRunning == 1

\* --------------------------------------------------------------- constants
\* db/models.py: hour = Column(Integer, default=8)
DefaultHour == 8
\* main.py: when=timedelta(seconds=first_delay + 15)
InitOffset == 15
\* The period of a run_daily job, in seconds.
DaySeconds == 86400

Langs == {"en", "ru"}
Dates == 1..MaxDay
Keys == Dates \X Langs
\* The two job slots a generation trigger can fire in (the one-time and the
\* daily trigger of a language, or the same trigger in two bot processes).
Runs == {1, 2}
Chats == {1, 2}

\* Python's None, and the absence of a row in a table.
None == "None"
NoRow == "NoRow"

\* Python truthiness of an optional string: None and "" are falsy.
Truthy(x) == x /= None /\ x /= ""

\* The text of the row the store holds for a key at start-up.
StoredText(date, language) == "msg-" \o ToString(date) \o "-" \o language

VARIABLES
    today,          \* datetime.now(GMT).date()
    compliments,    \* table compliments: (date, language) -> content
    runs,           \* generate_compliment: one record per job slot
    user_settings,  \* table user_settings: chat_id -> record
    delivery,       \* send_compliment: the last invocation of the handler
    gen,            \* ComplimentGenerator: one generate_compliment_for_date call
    step,           \* SpecStore: the last Check / Persist step applied
    firstSent,      \* send_compliment: language -> first text sent today
    answers,        \* what the content source and the model answer when asked
    jobs,           \* context.job_queue: chat_id -> the jobs under its name
    hist,           \* commands: what the handlers met so far
    loop            \* the clock, the triggers of main() and the event loop

vars == <<today, compliments, runs, user_settings, delivery, gen, step,
          firstSent, answers, jobs, hist, loop>>

\* ------------------------------------------------------- db/manager.py
\* get_compliment with the language filter of its query left out: the first
\* row of the date, whatever its language.
get_compliment_any_language(rows, date, language, ok) ==
    IF ~ok THEN None
    ELSE IF \A l \in Langs : rows[<<date, l>>] = NoRow THEN None
    ELSE rows[<<date, CHOOSE l \in Langs : rows[<<date, l>>] /= NoRow>>]

\* get_compliment with the language filter of its query inverted: the row
\* of the other language of the date.
get_compliment_other_language(rows, date, language, ok) ==
    IF ~ok THEN None
    ELSE LET other == CHOOSE l \in Langs : l /= language
         IN  IF rows[<<date, other>>] = NoRow THEN None ELSE rows[<<date, other>>]

\* DatabaseManager.get_compliment: the content of the row, None when there is
\* no row, and None when the query raises (the except branch).
get_compliment(rows, date, language, ok) ==
    IF ~ok THEN None
    ELSE IF rows[<<date, language>>] = NoRow THEN None
    ELSE rows[<<date, language>>]

\* Table compliments without its primary key: no insert is rejected.
DuplicateKey_no_primary_key(rows, date, language) == FALSE

\* The primary key (date, language) of table compliments rejects a second row.
DuplicateKey(rows, date, language) == rows[<<date, language>>] /= NoRow

\* add_compliment keyed by the date alone: the content lands in the row of
\* every language of that date.
add_compliment_every_language(rows, content, date, language) ==
    [k \in Keys |-> IF k[1] = date THEN content ELSE rows[k]]

\* add_compliment that stores an empty text in place of the content.
add_compliment_empty_text(rows, content, date, language) ==
    [rows EXCEPT ![<<date, language>>] = ""]

\* DatabaseManager.add_compliment, the committed insert.
add_compliment(rows, content, date, language) ==
    [rows EXCEPT ![<<date, language>>] = content]

\* add_compliment whose except branch rolls back and logs without the raise
\* of line 61: the caller is not told of the failure.
add_compliment_swallowing(rows, content, date, language, commitOk) ==
    LET rejected == DuplicateKey(rows, date, language)
    IN  [rows |-> IF rejected \/ ~commitOk THEN rows
                  ELSE add_compliment(rows, content, date, language),
         rejected |-> rejected,
         raised |-> FALSE]

\* add_compliment without the rollback of line 60: the row of an insert
\* whose commit failed on a free key stays in the table.
add_compliment_without_rollback(rows, content, date, language, commitOk) ==
    LET rejected == DuplicateKey(rows, date, language)
    IN  [rows |-> IF rejected THEN rows
                  ELSE add_compliment(rows, content, date, language),
         rejected |-> rejected,
         raised |-> rejected \/ ~commitOk]

\* One call of DatabaseManager.add_compliment (manager.py lines 50-63): the
\* table it leaves, whether the primary key rejected the insert, and whether
\* the call raised. A commit that fails, rejected or not, is rolled back
\* (line 60) and re-raised (line 61).
add_compliment_call(rows, content, date, language, commitOk) ==
    LET rejected == DuplicateKey(rows, date, language)
    IN  [rows |-> IF rejected \/ ~commitOk THEN rows
                  ELSE add_compliment(rows, content, date, language),
         rejected |-> rejected,
         raised |-> rejected \/ ~commitOk]

\* A manager method without the finally of its try: the session it opened
\* stays open when it returns.
db_close_missing(open) == open

\* finally: db.close() (manager.py lines 62-63, 78-79): the session the
\* method opened with SessionLocal() is closed however the method ends.
db_close(open) == open - 1

\* ------------------------------------------------------- shared pieces
Tick ==
    /\ today < MaxDay
    /\ today' = today + 1

\* Any table a run of earlier days and of today can have left, every row
\* holding a non-empty text.
StoreStates ==
    {[k \in Keys |-> IF k \in present THEN StoredText(k[1], k[2]) ELSE NoRow] :
        present \in SUBSET Keys}

\* pc, language, current_date and outcome are the handler's; passedCheck,
\* after (fired once an earlier run of the same key had returned without a
\* store fault), raced (passed Check while another run of the same key was
\* between Check and its end) and fault (a store call of the run raised)
\* record its history.
IdleRun == [pc |-> "idle", language |-> "en", current_date |-> 1,
            passedCheck |-> FALSE, after |-> FALSE, raced |-> FALSE,
            fault |-> FALSE, outcome |-> "none"]
NoUser == [exists |-> FALSE, language |-> "en", hour |-> DefaultHour,
           activated |-> FALSE]
NoDelivery == [status |-> "none", chat |-> 1, date |-> 1, subLang |-> "en",
               row |-> NoRow, langRead |-> TRUE, rowRead |-> TRUE,
               language |-> "en", text |-> None, escaped |-> FALSE,
               again |-> FALSE]
NothingSent == [l \in Langs |-> None]
\* The hours the commands are tried with.
Hours == {0, DefaultHour}
\* once and daily are the jobs waiting in the queue under the name of the
\* chat; running counts the invocations of send_compliment in flight.
NoJobs == [c \in Chats |-> [once |-> 0, daily |-> <<>>, running |-> 0]]
\* stopped: "ok" once /stop ended without a store failure, "failed" once it
\* ended on one, "no" since the last /start or /settime of the chat.
\* last: what the last step was, when it was a /start from a chat without a
\* record that no store call failed in ("first contact"), a /settime or a
\* /setlanguage that refused its argument, or a /settime that removed a
\* pending one-off job ("settime over one-off"); "other" if not. It is
\* recorded in the specification that starts with it at "other", and stays
\* "off" in the others.
NoHist == [stopped |-> [c \in Chats |-> "no"], last |-> "off"]
Last(step_was) == IF hist.last = "off" THEN "off" ELSE step_was
\* context.args is empty: the command came without an argument.
NoArgument == "<no argument>"
IdleGen == [pc |-> "idle", chains |-> TRUE, n |-> 0,
            item |-> [i \in 1..MaxItems |-> "none"],
            listing |-> <<>>, selectorCalls |-> 0, result |-> None,
            outcome |-> "none", newsFailed |-> FALSE, propagated |-> FALSE,
            order |-> <<>>]
NoStep == [kind |-> "none", language |-> "en", date |-> 1, content |-> None,
           rejected |-> FALSE, failed |-> FALSE, attempts |-> 0,
           sessions |-> 0, prev |-> "none", outcome |-> "none"]

\* The names main() registers its generation jobs under, and the daily
\* delivery job of one subscriber.
GenerationTriggers == {"generate_compliment_en_init", "generate_compliment_en",
                       "generate_compliment_ru_init", "generate_compliment_ru"}
Triggers == GenerationTriggers \cup {"send_compliment"}
\* No next fire: a one-off job that has fired, or a job not registered.
Never == -1
\* now: the clock in seconds since the midnight before the process started;
\* due: the instant each trigger fires next; dueAt: the instant it last
\* became due; pending: it is due and its handler has not started; busy:
\* the trigger whose handler is executing on the event loop; awaiting: the
\* invocations of send_compliment suspended at their await.
NoLoop == [now |-> 0,
           due |-> [t \in Triggers |-> Never],
           dueAt |-> [t \in Triggers |-> Never],
           pending |-> [t \in Triggers |-> FALSE],
           busy |-> "none",
           awaiting |-> 0]

\* ------------------------------------------------ bot/jobs.py generation
\* The parameters ComplimentGenerator.__init__ and generate_compliment_for_date
\* take after self, and which of them have no default.
InitParams == {"news_client", "llm_model", "llm_temperature"}
InitRequired == {"news_client"}
GenerateParams == {"target_date"}
GenerateRequired == {"target_date"}

\* Python binds a call to a signature when every keyword names a parameter
\* that no positional argument has filled and every parameter without a
\* default is filled (positional: the parameters the positional arguments
\* fill; kw: the keywords). Any other call raises TypeError.
Binds(params, required, positional, kw) ==
    /\ kw \subseteq params
    /\ kw \cap positional = {}
    /\ required \subseteq (positional \cup kw)

\* jobs.py line 53: ComplimentGenerator(FreshHeadlinesRetriever(), language=language)
ConstructorCallBinds == Binds(InitParams, InitRequired, {"news_client"}, {"language"})
\* jobs.py line 54: generator.generate_compliment_for_date()
GenerateCallBinds == Binds(GenerateParams, GenerateRequired, {}, {})

\* The trigger of language fires in slot r: DatabaseManager() (line 40), then
\* current_date (line 42). A constructor that raises lands in the handler's
\* except branch (line 64).
generate_compliment_open(r, language, opened) ==
    /\ runs[r].pc = "idle"
    /\ runs' = [runs EXCEPT ![r] =
          [pc |-> IF opened THEN "check" ELSE "done",
           language |-> language,
           current_date |-> today,
           passedCheck |-> FALSE,
           after |-> \E q \in Runs \ {r} :
                        /\ runs[q].pc = "done"
                        /\ ~runs[q].fault
                        /\ runs[q].language = language
                        /\ runs[q].current_date = today,
           raced |-> FALSE,
           fault |-> ~opened,
           outcome |-> IF opened THEN "none" ELSE "error"]]
    /\ UNCHANGED <<today, compliments, user_settings, delivery, gen, step, firstSent, answers, jobs, hist, loop>>

\* The runs that have passed Check for the key of r and have not ended.
Racing(r) ==
    {q \in Runs \ {r} : /\ runs[q].pc = "construct"
                        /\ runs[q].language = runs[r].language
                        /\ runs[q].current_date = runs[r].current_date}

\* Lines 44-50: the Check step.
generate_compliment_check(r, readOk) ==
    /\ runs[r].pc = "check"
    /\ LET existing_compliment ==
               get_compliment(compliments, runs[r].current_date, runs[r].language, readOk)
       IN  runs' = [q \in Runs |->
               IF q = r
               THEN IF Truthy(existing_compliment)
                    THEN [runs[r] EXCEPT !.pc = "done", !.outcome = "reused",
                                         !.fault = @ \/ ~readOk]
                    ELSE [runs[r] EXCEPT !.pc = "construct", !.passedCheck = TRUE,
                                         !.raced = Racing(r) /= {},
                                         !.fault = @ \/ ~readOk]
               ELSE IF ~Truthy(existing_compliment) /\ q \in Racing(r)
                    THEN [runs[q] EXCEPT !.raced = TRUE]
                    ELSE runs[q]]
    /\ UNCHANGED <<today, compliments, user_settings, delivery, gen, step, firstSent, answers, jobs, hist, loop>>

\* Lines 53-54 and 64-65: neither call binds to the signature it is made
\* against, so the TypeError is caught by the handler's except branch and
\* logged; lines 55-63 are not reached.
generate_compliment_construct(r) ==
    /\ runs[r].pc = "construct"
    /\ ~(ConstructorCallBinds /\ GenerateCallBinds)
    /\ runs' = [runs EXCEPT ![r] = [@ EXCEPT !.pc = "done", !.outcome = "error"]]
    /\ UNCHANGED <<today, compliments, user_settings, delivery, gen, step, firstSent, answers, jobs, hist, loop>>

\* The handler has returned; the slot is free for the next fire.
generate_compliment_return(r) ==
    /\ runs[r].pc = "done"
    /\ runs' = [runs EXCEPT ![r] = IdleRun]
    /\ UNCHANGED <<today, compliments, user_settings, delivery, gen, step, firstSent, answers, jobs, hist, loop>>

\* What generate_compliment_for_date would meet if the handler came to call
\* it: a content source without items (compliment.py lines 127-129), a
\* selector that fails or gives no text (lines 158-175), or a selected text.
Answers == {"no headlines", "selector fails", "text"}

ClockJobs ==
    /\ Tick
    /\ UNCHANGED <<compliments, runs, user_settings, delivery, gen, step, firstSent, answers, jobs, hist, loop>>

Init ==
    /\ today = 1
    /\ compliments \in StoreStates
    /\ runs = [r \in Runs |-> IdleRun]
    /\ user_settings = [c \in Chats |-> NoUser]
    /\ delivery = NoDelivery
    /\ gen = IdleGen
    /\ step = NoStep
    /\ firstSent = NothingSent
    /\ answers \in Answers
    /\ jobs = NoJobs
    /\ hist = NoHist
    /\ loop = NoLoop

Next ==
    \/ \E r \in Runs, language \in Langs, opened \in BOOLEAN : generate_compliment_open(r, language, opened)
    \/ \E r \in Runs, readOk \in BOOLEAN : generate_compliment_check(r, readOk)
    \/ \E r \in Runs : generate_compliment_construct(r)
    \/ \E r \in Runs : generate_compliment_return(r)
    \/ ClockJobs

Spec == Init /\ [][Next]_vars

RowOf(r) == compliments[<<runs[r].current_date, runs[r].language>>]

\* C1 (as claimed): of two generation runs made one after the other for the
\* same (date, language), neither meeting a store fault, the second ends with
\* the row of that key persisted, having short-circuited at Check (so without
\* any model invocation).
C1_IdempotentSecondRun ==
    \A r \in Runs :
        (runs[r].pc = "done" /\ runs[r].after /\ ~runs[r].fault)
            => (RowOf(r) /= NoRow /\ runs[r].outcome = "reused")

\* C2 (as claimed): a run that found no row at Check and met no store fault
\* ends with the row of its key persisted and the outcome "generated", when
\* the content source has items and the selector gives a text.
C2_PersistsSelectedText ==
    \A r \in Runs :
        ( /\ runs[r].pc = "done" /\ runs[r].passedCheck /\ ~runs[r].fault
          /\ answers = "text" )
            => (RowOf(r) /= NoRow /\ runs[r].outcome = "generated")

\* C6 (as claimed): when two runs of one key have both passed Check before
\* either ended, then once both have ended the store holds the row of that
\* key and neither handler let an exception escape.
C6_DuplicateKeyTolerance ==
    \A r \in Runs : \A q \in Runs \ {r} :
        ( /\ runs[r].pc = "done" /\ runs[q].pc = "done"
          /\ runs[r].raced /\ runs[q].raced
          /\ ~runs[r].fault /\ ~runs[q].fault
          /\ runs[r].language = runs[q].language
          /\ runs[r].current_date = runs[q].current_date )
            => ( /\ RowOf(r) /= NoRow
                 /\ runs[r].outcome /= "crashed" /\ runs[q].outcome /= "crashed" )

\* C15 (as claimed): a run of one language that failed after Check aborts
\* only itself: the run of the other language for the same date, with the
\* store, the content source and the model all answering, completes with
\* its row persisted.
C15_FailureIsolated ==
    \A r \in Runs : \A q \in Runs \ {r} :
        ( /\ runs[q].pc = "done" /\ runs[q].passedCheck /\ runs[q].outcome = "error"
          /\ runs[r].pc = "done" /\ runs[r].passedCheck /\ ~runs[r].fault
          /\ runs[r].language /= runs[q].language
          /\ runs[r].current_date = runs[q].current_date
          /\ answers = "text" )
            => (RowOf(r) /= NoRow /\ runs[r].outcome = "generated")

C18_NoItemsIsWarning ==
    \A r \in Runs :
        (runs[r].pc = "done" /\ runs[r].passedCheck /\ answers = "no headlines")
            => (runs[r].outcome = "warning" /\ RowOf(r) = NoRow)

\* C19 (as claimed): a run whose selector fails, or gives no text or an
\* empty one, ends with the warning outcome and persists nothing.
C19_SelectorFailureIsWarning ==
    \A r \in Runs :
        (runs[r].pc = "done" /\ runs[r].passedCheck /\ answers = "selector fails")
            => (runs[r].outcome = "warning" /\ RowOf(r) = NoRow)

\* ------------------------------------------------ compliment.py pipeline
\* What one invocation of single_compliment_chain can give back: a
\* ComplimentModel with a text ("ok"), a structured output without a text
\* (None, or compliment = "": "empty"), or an exception ("raised").
ItemOutcomes == {"ok", "empty", "raised"}
\* What select_best_compliment_chain can give back: an exception, no
\* structured output, an empty text, or a text.
SelectorOutcomes == {"raised", None, "", "selected text"}

\* The text the model writes for headline i.
CandidateText(i) == "candidate-" \o ToString(i)

\* _join_compliments appending a part only for a result that has a text and
\* numbering the parts as they are appended.
_join_compliments_skipping_empty(item, n) ==
    LET kept == {i \in 1..n : item[i] = "ok"}
        nth(j) == CHOOSE i \in kept : Cardinality({k \in kept : k < i}) = j - 1
    IN  [j \in 1..Cardinality(kept) |->
            "Compliment " \o ToString(j) \o ": " \o CandidateText(nth(j))]

\* ComplimentGenerator._join_compliments (lines 100-115): one numbered part per
\* key of results, the text of a result that has none replaced by "".
_join_compliments(item, n) ==
    [i \in 1..n |->
        "Compliment " \o ToString(i) \o ": "
            \o (IF item[i] = "ok" THEN CandidateText(i) ELSE "")]

\* get_headlines without its except branch: a failure of the API call
\* leaves the method as an exception.
get_headlines_propagating(n, newsOk) ==
    [raised |-> ~newsOk, headlines |-> IF newsOk THEN n ELSE 0]

\* FreshHeadlinesRetriever.get_headlines (news.py lines 35-56): the articles
\* of the answer, or [] when the call of the news API raises.
get_headlines(n, newsOk) ==
    [raised |-> FALSE, headlines |-> IF newsOk THEN n ELSE 0]

\* ComplimentGenerator._get_headlines (lines 117-122): the headlines of the
\* news client, [] when it raises.
_get_headlines(n, newsOk) ==
    LET got == get_headlines(n, newsOk)
    IN  IF got.raised THEN 0 ELSE got.headlines

\* RunnableParallel returning at the first future that is done.
futures_done_first_completed(item, n) == \E i \in 1..n : item[i] /= "pending"

\* RunnableParallel.invoke (the chain of lines 147-159) leaves its executor
\* once every submitted call is done.
futures_done(item, n) == \A i \in 1..n : item[i] /= "pending"

\* Lines 126-157 and the dispatch of line 159: the headlines are fetched
\* (_get_headlines and FreshHeadlinesRetriever.get_headlines turn a failure
\* into []), the two early returns are taken, or RunnableParallel submits one
\* single_compliment_chain per headline.
generate_compliment_for_date(n, newsOk) ==
    /\ gen.pc = "idle"
    /\ LET headlines == _get_headlines(n, newsOk)
           met == [gen EXCEPT !.newsFailed = ~newsOk,
                              !.propagated = get_headlines(n, newsOk).raised]
       IN  gen' =
             IF headlines = 0
             THEN [met EXCEPT !.pc = "done", !.n = 0, !.result = None,
                              !.outcome = "no headlines"]
             ELSE IF ~gen.chains
             THEN [met EXCEPT !.pc = "done", !.n = headlines, !.result = None,
                              !.outcome = "no chains"]
             ELSE [met EXCEPT !.pc = "fanout", !.n = headlines,
                              !.item = [i \in 1..MaxItems |->
                                           IF i <= headlines THEN "pending" ELSE "none"]]
    /\ UNCHANGED <<today, compliments, runs, user_settings, delivery, step, firstSent, answers, jobs, hist, loop>>

\* One of the parallel calls ends, in any order.
single_compliment_chain(i, out) ==
    /\ gen.pc = "fanout"
    /\ i \in 1..gen.n
    /\ gen.item[i] = "pending"
    /\ gen' = [gen EXCEPT !.item[i] = out, !.order = Append(@, i)]
    /\ UNCHANGED <<today, compliments, runs, user_settings, delivery, step, firstSent, answers, jobs, hist, loop>>

\* RunnableParallel returns once every future is done and re-raises the
\* exception of a call that raised: chain.invoke raises and lines 160-162
\* return None. Otherwise _join_compliments builds the selector's input.
parallel_chain ==
    /\ gen.pc = "fanout"
    /\ futures_done(gen.item, gen.n)
    /\ gen' =
         IF \E i \in 1..gen.n : gen.item[i] = "raised"
         THEN [gen EXCEPT !.pc = "done", !.result = None, !.outcome = "chain error"]
         ELSE [gen EXCEPT !.pc = "select", !.listing = _join_compliments(gen.item, gen.n)]
    /\ UNCHANGED <<today, compliments, runs, user_settings, delivery, step, firstSent, answers, jobs, hist, loop>>

\* select_best_compliment_chain is invoked on the listing; lines 158-172 turn
\* an exception and a missing or empty text into None.
select_best_compliment_chain(out) ==
    /\ gen.pc = "select"
    /\ gen' = [gen EXCEPT
                 !.pc = "done",
                 !.selectorCalls = @ + 1,
                 !.result = IF out /= "raised" /\ Truthy(out) THEN out ELSE None,
                 !.outcome = IF out = "raised" THEN "chain error"
                             ELSE IF Truthy(out) THEN "text" ELSE "no text"]
    /\ UNCHANGED <<today, compliments, runs, user_settings, delivery, step, firstSent, answers, jobs, hist, loop>>

\* ComplimentGenerator.__init__ / _setup_chains: the chains are set up, or an
\* exception there leaves both None.
InitGen ==
    /\ today = 1
    /\ compliments = [k \in Keys |-> NoRow]
    /\ runs = [r \in Runs |-> IdleRun]
    /\ user_settings = [c \in Chats |-> NoUser]
    /\ delivery = NoDelivery
    /\ gen \in {[IdleGen EXCEPT !.chains = c] : c \in BOOLEAN}
    /\ step = NoStep
    /\ firstSent = NothingSent
    /\ answers = "text"
    /\ jobs = NoJobs
    /\ hist = NoHist
    /\ loop = NoLoop

NextGen ==
    \/ \E n \in 0..MaxItems, newsOk \in BOOLEAN : generate_compliment_for_date(n, newsOk)
    \/ \E i \in 1..MaxItems, out \in ItemOutcomes : single_compliment_chain(i, out)
    \/ parallel_chain
    \/ \E out \in SelectorOutcomes : select_best_compliment_chain(out)

SpecGen == InitGen /\ [][NextGen]_vars

Succeeded == {i \in 1..gen.n : gen.item[i] = "ok"}
Failed == {i \in 1..gen.n : gen.item[i] \in {"empty", "raised"}}
Listed(i) ==
    \E j \in 1..Len(gen.listing) :
        gen.listing[j] = "Compliment " \o ToString(i) \o ": " \o CandidateText(i)

\* C3 (as claimed): in a run where a candidate-generation call failed and at
\* least one succeeded, the candidates of the succeeded items are collected
\* and the selector is invoked.
C3_Isolation ==
    (gen.pc = "done" /\ Failed /= {} /\ Succeeded /= {})
        => (gen.selectorCalls = 1 /\ \A i \in Succeeded : Listed(i))

\* C4 (as claimed): when the generator succeeded for the items S (not empty)
\* of the N fetched, the selector is invoked with exactly |S| candidates, one
\* per succeeded item and none for a failed item.
C4_SelectorGetsSucceeded ==
    (gen.pc = "done" /\ Succeeded /= {})
        => ( /\ gen.selectorCalls = 1
             /\ Len(gen.listing) = Cardinality(Succeeded)
             /\ \A i \in Succeeded : Listed(i) )

\* C5 (as claimed): when every candidate-generation call of a run has failed
\* (or the chains are unavailable), the selector is not invoked and the run
\* returns no text to persist.
C5_AllFailGate ==
    (gen.pc = "done" /\ gen.n > 0 /\ Succeeded = {})
        => (gen.selectorCalls = 0 /\ gen.result = None)

\* C22: get_headlines never lets a failure of the news API call out: it
\* returns an empty sequence, and generate_compliment_for_date then returns
\* no text ("no headlines") without any candidate or selector call.
C22_NoHeadlinesOnFailure ==
    /\ ~gen.propagated
    /\ (gen.pc /= "idle" /\ gen.newsFailed)
          => ( /\ gen.pc = "done" /\ gen.n = 0
               /\ gen.outcome = "no headlines" /\ gen.result = None
               /\ gen.order = <<>> /\ gen.selectorCalls = 0 )

\* The news API call failed in a generator whose chains are set up: the run
\* is over with no headlines.
C22_Witness ==
    /\ gen.newsFailed /\ gen.chains
    /\ gen.pc = "done" /\ gen.outcome = "no headlines"

\* C25: the selector is invoked only once every candidate-generation call
\* the run dispatched has finished or failed.
C25_JoinWaitsForAll ==
    (gen.pc = "select" \/ gen.selectorCalls > 0)
        => ( /\ \A i \in 1..gen.n : gen.item[i] /= "pending"
             /\ Len(gen.order) = gen.n )

\* The selector was invoked in a run of several calls, the last of which to
\* finish was not the last dispatched.
C25_Witness ==
    /\ gen.selectorCalls = 1 /\ gen.n >= 2
    /\ Len(gen.order) = gen.n
    /\ gen.order[gen.n] /= gen.n

\* C26: whatever the order in which the calls completed, the listing the
\* selector receives has one entry per item, in item position, numbered by
\* that position and holding the text of that item's result.
C26_ListingByPosition ==
    (gen.pc = "select" \/ gen.selectorCalls > 0)
        => ( /\ Len(gen.listing) = gen.n
             /\ \A i \in 1..gen.n :
                   gen.listing[i] =
                     "Compliment " \o ToString(i) \o ": "
                        \o (IF gen.item[i] = "ok" THEN CandidateText(i) ELSE "") )

\* The calls completed in the reverse of the item order, one of them without
\* a text, and the selector was invoked on the listing.
C26_Witness ==
    /\ gen.selectorCalls = 1 /\ gen.n >= 2
    /\ Len(gen.order) = gen.n
    /\ \A j \in 1..gen.n : gen.order[j] = gen.n + 1 - j
    /\ \E i \in 1..gen.n : gen.item[i] = "empty"
    /\ Len(gen.listing) = gen.n

\* ------------------------------------- the Check and Persist steps, applied
\* The values generate_compliment_for_date can return to line 54.
Generated == {None, "text-a", "text-b"}

\* jobs.py lines 44-50 over get_compliment: the run ends "reused" when the row
\* is there and goes on otherwise.
check_step(language, readOk) ==
    /\ LET existing_compliment == get_compliment(compliments, today, language, readOk)
       IN  step' = [kind |-> "check", language |-> language, date |-> today,
                    content |-> existing_compliment, rejected |-> FALSE,
                    failed |-> FALSE, attempts |-> 0,
                    sessions |-> db_close(1),
                    prev |-> IF step.date = today /\ step.language = language
                             THEN step.outcome ELSE "none",
                    outcome |-> IF Truthy(existing_compliment) THEN "reused" ELSE "none"]
    /\ UNCHANGED <<today, compliments, runs, user_settings, delivery, gen, firstSent, answers, jobs, hist, loop>>

\* jobs.py lines 55-65 over add_compliment (manager.py lines 50-63): a truthy
\* compliment is inserted and committed; a commit the primary key rejects, or
\* that fails otherwise, is rolled back and re-raised, and the handler's
\* except branch logs the error. A falsy compliment is the warning of line 61.
\* failed marks a commit that failed although the key was free; attempts
\* counts the calls of add_compliment the step made; sessions counts the
\* store sessions the step leaves open.
persist_step(language, compliment, commitOk) ==
    /\ LET call == add_compliment_call(compliments, compliment, today, language, commitOk)
           rejected == Truthy(compliment) /\ call.rejected
           raised == Truthy(compliment) /\ call.raised
       IN  /\ compliments' = IF Truthy(compliment) THEN call.rows ELSE compliments
           /\ step' = [kind |-> "persist", language |-> language, date |-> today,
                       content |-> compliment, rejected |-> rejected,
                       failed |-> Truthy(compliment) /\ ~call.rejected /\ ~commitOk,
                       attempts |-> IF Truthy(compliment) THEN 1 ELSE 0,
                       sessions |-> IF Truthy(compliment) THEN db_close(1) ELSE 0,
                       prev |-> IF step.date = today /\ step.language = language
                                THEN step.outcome ELSE "none",
                       outcome |-> IF ~Truthy(compliment) THEN "warning"
                                   ELSE IF raised THEN "error" ELSE "generated"]
    /\ UNCHANGED <<today, runs, user_settings, delivery, gen, firstSent, answers, jobs, hist, loop>>

ClockStore ==
    /\ Tick
    /\ UNCHANGED <<compliments, runs, user_settings, delivery, gen, step, firstSent, answers, jobs, hist, loop>>

\* Base.metadata.create_all on a fresh database: the table is empty.
InitStore ==
    /\ today = 1
    /\ compliments = [k \in Keys |-> NoRow]
    /\ runs = [r \in Runs |-> IdleRun]
    /\ user_settings = [c \in Chats |-> NoUser]
    /\ delivery = NoDelivery
    /\ gen = IdleGen
    /\ step = NoStep
    /\ firstSent = NothingSent
    /\ answers = "text"
    /\ jobs = NoJobs
    /\ hist = NoHist
    /\ loop = NoLoop

NextStore ==
    \/ \E language \in Langs, readOk \in BOOLEAN : check_step(language, readOk)
    \/ \E language \in Langs, compliment \in Generated, commitOk \in BOOLEAN :
          persist_step(language, compliment, commitOk)
    \/ ClockStore

SpecStore == InitStore /\ [][NextStore]_vars

\* The outcomes a run reports as a success (the info logs of lines 47, 57).
SuccessOutcomes == {"reused", "generated"}

\* C7 (as claimed): a Persist step whose insert the primary key rejected ends
\* with a success outcome.
C7_DuplicateIsSuccess ==
    (step.kind = "persist" /\ step.rejected) => step.outcome \in SuccessOutcomes

\* C16: rows are append-only: a row that exists is there with the same text
\* after every later step, whatever runs, deliveries and commands follow.
C16_AppendOnly ==
    [][ \A k \in Keys : compliments[k] /= NoRow => compliments'[k] = compliments[k] ]_vars

\* A Persist step carried another text for a key whose row exists: the
\* insert was rejected and the row holds its first text.
C16_Witness ==
    /\ step.kind = "persist" /\ step.rejected
    /\ compliments[<<step.date, step.language>>] \notin {NoRow, step.content}

\* C20: a Persist step whose commit fails for another reason than a
\* duplicate key ends the run with the error outcome after its one call of
\* add_compliment (no retry), and every row is as it was.
C20_HardFailure ==
    [][ (step'.kind = "persist" /\ step'.failed)
           => ( /\ step'.outcome = "error"
                /\ step'.attempts = 1
                /\ compliments' = compliments ) ]_vars

\* A commit failed on a free key while the table held a row committed
\* earlier: the step ended in the error outcome and the key is still free.
C20_Witness ==
    /\ step.kind = "persist" /\ step.failed /\ step.outcome = "error"
    /\ compliments[<<step.date, step.language>>] = NoRow
    /\ \E k \in Keys : compliments[k] /= NoRow

C35_FailedRunNotCached ==
    [][ /\ (step'.kind = "persist" /\ step'.outcome \in {"warning", "error"})
            => compliments' = compliments
        /\ ( /\ step'.kind = "check"
              /\ compliments'[<<step'.date, step'.language>>] = NoRow )
            => step'.outcome = "none" ]_vars

\* After a Persist step of the same date and language that ended without a
\* row, while the table holds rows of other keys, a Check step found no row
\* and the run goes on.
C35_Witness ==
    /\ step.kind = "check" /\ step.outcome = "none"
    /\ step.prev \in {"warning", "error"}
    /\ compliments[<<step.date, step.language>>] = NoRow
    /\ \E k \in Keys : compliments[k] /= NoRow

\* C36: every row of the table has a non-empty text, and a Check step that
\* read the row of its key ends the run as reused.
C36_RowsNonEmpty ==
    /\ \A k \in Keys : compliments[k] \notin {None, ""}
    /\ (step.kind = "check" /\ step.content /= None) => step.outcome = "reused"

\* A Check step has just reused the row a Persist step wrote.
C36_Witness ==
    /\ step.kind = "check" /\ step.outcome = "reused"
    /\ step.prev = "generated"
    /\ step.content = compliments[<<step.date, step.language>>]
    /\ step.content \in Generated \ {None}

\* C8: a step of the run for (date, L) leaves every row of every other
\* language as it was: none is created, overwritten or removed.
C8_LanguageIsolation ==
    [][ \A k \in Keys : k[2] /= step'.language => compliments'[k] = compliments[k] ]_vars

\* A Persist step for "en" has just written its row on a date whose "ru" row
\* was written before with another text, and that row is still there.
C8_Witness ==
    /\ step.kind = "persist" /\ step.outcome = "generated" /\ step.language = "en"
    /\ compliments[<<step.date, "en">>] = step.content
    /\ compliments[<<step.date, "ru">>] \notin {NoRow, step.content}

\* ------------------------------------------------ bot/jobs.py delivery
\* get_user_language with the chat_id filter of its query left out: the
\* language of the first record of the table.
get_user_language_first_record(users, chat_id, ok) ==
    IF ~ok THEN "en"
    ELSE IF ~users[1].exists THEN "en"
    ELSE users[1].language

\* The language bound to the job when /start registered it, which is the
\* "en" of a new record, in place of the one stored now.
get_user_language_at_registration(users, chat_id, ok) == "en"

\* DatabaseManager.get_user_language (manager.py lines 81-97): the stored
\* language, "en" when there is no record or no language, and "en" when the
\* query raises.
get_user_language(users, chat_id, ok) ==
    IF ~ok THEN "en"
    ELSE IF users[chat_id].exists /\ Truthy(users[chat_id].language)
         THEN users[chat_id].language
         ELSE "en"

\* DatabaseManager.set_user_language (manager.py lines 99-118): the record is
\* updated, or created with the column defaults of db/models.py.
set_user_language(users, chat_id, language) ==
    [users EXCEPT ![chat_id] =
        IF @.exists THEN [@ EXCEPT !.language = language]
        ELSE [exists |-> TRUE, language |-> language, hour |-> DefaultHour,
              activated |-> FALSE]]

\* translations/<language>.yaml, key messages.fallback_compliment.
fallback_compliment(language) == "fallback-" \o language

\* get_translation that ignores its language and loads en.yaml.
get_translation_english_only(key, language) == fallback_compliment("en")

\* translations.get_translation("messages.fallback_compliment", language),
\* both translation files loaded: load_translations takes any language other
\* than "en" and "ru" for "en", and a key that is not found comes back as is.
get_translation(key, language) ==
    IF key = "messages.fallback_compliment"
    THEN fallback_compliment(IF language \in {"en", "ru"} THEN language ELSE "en")
    ELSE key

\* send_compliment (jobs.py lines 17-34), one fire of the trigger of chat_id.
\* A DatabaseManager() that raises is caught at line 29, before chat_id was
\* bound at line 21: line 34 then raises UnboundLocalError and nothing is
\* sent. Otherwise the language and the row are read (both reads turn a
\* failure into their default), the fallback replaces a falsy compliment,
\* and send_message, which no try encloses, sends the text or raises a
\* transport error out of the handler. subLang, row, langRead, rowRead and
\* again (an earlier delivery of today to a subscriber of the same language
\* had read the store and sent a text) record what the handler met; escaped
\* tells whether an exception left the handler.
send_compliment(chat_id, opened, langOk, rowOk, transportOk) ==
    /\ LET language == get_user_language(user_settings, chat_id, langOk)
           current_date == today
           found == get_compliment(compliments, current_date, language, rowOk)
           compliment ==
               IF ~opened THEN get_translation("messages.fallback_compliment", "en")
               ELSE IF Truthy(found) THEN found
               ELSE get_translation("messages.fallback_compliment", language)
           subLang == user_settings[chat_id].language
           sent == opened /\ transportOk
       IN
        /\ firstSent' =
             IF sent /\ langOk /\ rowOk /\ firstSent[subLang] = None
             THEN [firstSent EXCEPT ![subLang] = compliment]
             ELSE firstSent
        /\ delivery' =
             [status |-> IF ~opened THEN "crashed"
                         ELSE IF transportOk THEN "sent" ELSE "transport error",
              chat |-> chat_id,
              date |-> current_date,
              subLang |-> subLang,
              row |-> compliments[<<current_date, subLang>>],
              langRead |-> opened /\ langOk,
              rowRead |-> opened /\ rowOk,
              language |-> IF opened THEN language ELSE "en",
              text |-> IF sent THEN compliment ELSE None,
              escaped |-> ~sent,
              again |-> firstSent[subLang] /= None]
    /\ UNCHANGED <<today, compliments, runs, user_settings, gen, step, answers, jobs, hist, loop>>

\* The arguments /setlanguage is tried with, and str.lower on them.
LanguageArgs == {NoArgument, "en", "ru", "RU", "de"}
lower(arg) == IF arg = "RU" THEN "ru" ELSE arg

\* /setlanguage (handlers.py lines 146-181): without an argument the
\* handler answers and returns; the argument is lowered and refused unless
\* it is "en" or "ru"; DatabaseManager() or set_user_language raising ends
\* the handler with nothing stored.
setlanguage(chat_id, arg, raises) ==
    /\ raises \in {"none", "DatabaseManager", "set_user_language"}
    /\ LET language_arg == lower(arg)
           refused == /\ raises /= "DatabaseManager"
                      /\ (arg = NoArgument \/ language_arg \notin {"en", "ru"})
       IN  /\ user_settings' =
                IF raises = "none" /\ ~refused
                THEN set_user_language(user_settings, chat_id, language_arg)
                ELSE user_settings
           /\ hist' = [hist EXCEPT !.last = Last(IF refused THEN "setlanguage refused"
                                                 ELSE "other")]
    /\ UNCHANGED <<today, compliments, runs, delivery, gen, step, firstSent, answers, jobs, loop>>

\* A new day: no delivery of it has been made yet.
ClockSend ==
    /\ Tick
    /\ firstSent' = NothingSent
    /\ UNCHANGED <<compliments, runs, user_settings, delivery, gen, step, answers, jobs, hist, loop>>

\* The record /start leaves for a new chat. Every chat of this
\* specification has been through /start, and chat 1 through /settime 0,
\* before the first state: its record holds the language of a new record
\* and its daily job is in the queue at the stored hour.
Subscribed(language) ==
    [exists |-> TRUE, language |-> language, hour |-> DefaultHour, activated |-> TRUE]

InitSend ==
    /\ today = 1
    /\ compliments \in StoreStates
    /\ runs = [r \in Runs |-> IdleRun]
    /\ user_settings =
          [c \in Chats |->
             [Subscribed("en") EXCEPT !.hour = IF c = 1 THEN 0 ELSE DefaultHour]]
    /\ delivery = NoDelivery
    /\ gen = IdleGen
    /\ step = NoStep
    /\ firstSent = NothingSent
    /\ answers = "text"
    /\ jobs = [c \in Chats |->
                 [once |-> 0, daily |-> <<user_settings[c].hour>>, running |-> 0]]
    /\ hist = NoHist
    /\ loop = NoLoop

NextSend ==
    \/ \E chat_id \in Chats, opened, langOk, rowOk, transportOk \in BOOLEAN :
          send_compliment(chat_id, opened, langOk, rowOk, transportOk)
    \/ \E chat_id \in Chats, arg \in {"en", "ru", "RU"},
          raises \in {"none", "DatabaseManager", "set_user_language"} :
          setlanguage(chat_id, arg, raises)
    \/ ClockSend

SpecSend == InitSend /\ [][NextSend]_vars

Fallbacks == {fallback_compliment(l) : l \in Langs}

\* C11 (as claimed): every fire of a delivery trigger that the transport
\* accepts ends with a message sent, the cached row or a fallback, whichever
\* call of the persistence layer failed, opening the store included.
C11_AlwaysSends ==
    (delivery.status \notin {"none", "transport error"})
        => ( /\ delivery.status = "sent"
             /\ delivery.text \in {delivery.row} \cup Fallbacks
             /\ delivery.text /= NoRow )

C14_TransportErrorContained ==
    (delivery.status = "transport error") => ~delivery.escaped

NoHour == -1

\* The arguments /settime is tried with: none, one that is no integer, two
\* hours and two integers validate_hour refuses.
SettimeArgs == {NoArgument, "eight", "0", "8", "-1", "24"}

\* int(context.args[0]) on those arguments: the integer, or ValueError.
int(arg) ==
    LET literals == ("0" :> 0) @@ ("8" :> 8) @@ ("-1" :> -1) @@ ("24" :> 24)
    IN  IF arg \in DOMAIN literals
        THEN [raised |-> FALSE, value |-> literals[arg]]
        ELSE [raised |-> TRUE, value |-> NoHour]

\* utils.validate_hour with its upper end one too far.
validate_hour_up_to_24(hour) == 0 <= hour /\ hour <= 24

\* utils.validate_hour.
validate_hour(hour) == 0 <= hour /\ hour <= 23

\* remove_job_if_exists under another name than the one the jobs were
\* registered with: get_jobs_by_name finds none and nothing is removed.
remove_job_if_exists_wrong_name(queue, name) == queue

\* remove_job_if_exists that removes the recurring jobs only.
remove_job_if_exists_keeping_once(queue, name) ==
    [queue EXCEPT ![name] = [once |-> @.once, daily |-> <<>>, running |-> @.running]]

\* remove_job_if_exists that removes the one-off jobs only.
remove_job_if_exists_keeping_daily(queue, name) ==
    [queue EXCEPT ![name] = [once |-> 0, daily |-> @.daily, running |-> @.running]]

\* run_daily that registers at midnight whatever hour it is given.
run_daily_at_midnight(queue, name, hour) == [queue EXCEPT ![name].daily = Append(@, 0)]

\* utils.remove_job_if_exists: every job of that name is removed from the
\* queue (schedule_removal); an invocation in flight is not touched.
remove_job_if_exists(queue, name) ==
    [queue EXCEPT ![name] = [once |-> 0, daily |-> <<>>, running |-> @.running]]

\* job_queue.run_once(send_compliment, ..., name=str(chat_id)).
run_once(queue, name) == [queue EXCEPT ![name].once = @ + 1]

\* job_queue.run_daily(send_compliment, time(hour=hour), ..., name=str(chat_id)).
run_daily(queue, name, hour) == [queue EXCEPT ![name].daily = Append(@, hour)]

\* DatabaseManager.get_user_hour (manager.py lines 120-132): None when there
\* is no record and when the query raises.
get_user_hour(users, chat_id, ok) ==
    IF ok /\ users[chat_id].exists THEN users[chat_id].hour ELSE NoHour

\* DatabaseManager.set_user_hour (lines 134-153), committed.
set_user_hour(users, chat_id, hour) ==
    [users EXCEPT ![chat_id] =
        IF @.exists THEN [@ EXCEPT !.hour = hour]
        ELSE [exists |-> TRUE, language |-> "en", hour |-> hour,
              activated |-> FALSE]]

\* set_user_activated creating its record without an hour, on a column
\* that has no default.
set_user_activated_without_hour(users, chat_id, activated) ==
    [users EXCEPT ![chat_id] =
        IF @.exists THEN [@ EXCEPT !.activated = activated]
        ELSE [exists |-> TRUE, language |-> "en", hour |-> NoHour,
              activated |-> activated]]

\* DatabaseManager.set_user_activated (lines 155-181), committed.
set_user_activated(users, chat_id, activated) ==
    [users EXCEPT ![chat_id] =
        IF @.exists THEN [@ EXCEPT !.activated = activated]
        ELSE [exists |-> TRUE, language |-> "en", hour |-> DefaultHour,
              activated |-> activated]]

\* DatabaseManager.get_activated_users (lines 183-197): the chats of the
\* activated records, none when the query raises.
get_activated_users(users, ok) ==
    IF ok THEN {c \in Chats : users[c].exists /\ users[c].activated} ELSE {}

\* The queue has room for one more job of each kind under the name.
Room(queue, name) ==
    queue[name].once < MaxJobs /\ Len(queue[name].daily) < MaxJobs

\* /start (handlers.py lines 15-61). The jobs of the chat are removed first;
\* a store call that raises ends the handler where it stands (nothing in
\* start catches it), get_user_hour and get_user_language turning their own
\* failures into None and "en" (raises names the call that raises, if one
\* does and is made). An unknown hour is taken for a new user,
\* whose defaults are saved. Then the record is activated and the one-off
\* and the daily job are registered.
start(chat_id, hourOk, langOk, raises) ==
    LET cleared == remove_job_if_exists(jobs, chat_id)
        stored == get_user_hour(user_settings, chat_id, hourOk)
        language == get_user_language(user_settings, chat_id, langOk)
        new == stored = NoHour
        hour == IF new THEN DefaultHour ELSE stored
        u1 == IF new THEN set_user_hour(user_settings, chat_id, hour) ELSE user_settings
        u2 == IF new THEN set_user_language(u1, chat_id, language) ELSE u1
        u3 == set_user_activated(u2, chat_id, TRUE)
        raisedAt == IF ~new /\ raises \in {"set_user_hour", "set_user_language"}
                    THEN "none" ELSE raises
    IN  /\ Room(cleared, chat_id)
        /\ raises \in {"none", "DatabaseManager", "set_user_hour",
                        "set_user_language", "set_user_activated"}
        /\ user_settings' =
              CASE raisedAt \in {"DatabaseManager", "set_user_hour"} -> user_settings
                [] raisedAt = "set_user_language" -> u1
                [] raisedAt = "set_user_activated" -> u2
                [] OTHER -> u3
        /\ jobs' = IF raisedAt = "none"
                   THEN run_daily(run_once(cleared, chat_id), chat_id, hour)
                   ELSE cleared
        /\ hist' = [stopped |-> [hist.stopped EXCEPT ![chat_id] = "no"],
                    last |-> Last(IF ~user_settings[chat_id].exists /\ raisedAt = "none"
                                  THEN "first contact" ELSE "other")]
        /\ UNCHANGED <<today, compliments, runs, delivery, gen, step, firstSent, answers, loop>>

\* /stop (lines 64-77): the jobs of the chat are removed and the record is
\* deactivated; DatabaseManager() raising ends the handler before either.
stop(chat_id, raises) ==
    /\ raises \in {"none", "DatabaseManager", "set_user_activated"}
    /\ jobs' = IF raises /= "DatabaseManager"
               THEN remove_job_if_exists(jobs, chat_id) ELSE jobs
    /\ user_settings' = IF raises = "none"
                        THEN set_user_activated(user_settings, chat_id, FALSE)
                        ELSE user_settings
    /\ hist' = [stopped |-> [hist.stopped EXCEPT
                                ![chat_id] = IF raises = "none" THEN "ok" ELSE "failed"],
                last |-> Last("other")]
    /\ UNCHANGED <<today, compliments, runs, delivery, gen, step, firstSent, answers, loop>>

\* /settime (lines 80-143). Without an argument, with one int() refuses or
\* with an hour validate_hour refuses, the handler answers and returns:
\* nothing changes. Otherwise the hour is stored and the record activated
\* (a store failure is no ValueError and ends the handler), the jobs of the
\* chat are removed and the daily job is registered at the new hour.
settime(chat_id, arg, raises) ==
    LET cleared == remove_job_if_exists(jobs, chat_id)
        parsed == int(arg)
        hour == parsed.value
        u1 == set_user_hour(user_settings, chat_id, hour)
        u2 == set_user_activated(u1, chat_id, TRUE)
        raisedAt == IF raises = "DatabaseManager" THEN raises
                    ELSE IF arg = NoArgument THEN "usage"
                    ELSE IF parsed.raised \/ ~validate_hour(hour) THEN "invalid"
                    ELSE raises
    IN  /\ Room(cleared, chat_id)
        /\ raises \in {"none", "DatabaseManager", "set_user_hour", "set_user_activated"}
        /\ user_settings' =
              CASE raisedAt = "none" -> u2
                [] raisedAt = "set_user_activated" -> u1
                [] OTHER -> user_settings
        /\ jobs' = IF raisedAt = "none" THEN run_daily(cleared, chat_id, hour) ELSE jobs
        /\ hist' = [stopped |-> [hist.stopped EXCEPT ![chat_id] = "no"],
                    last |-> Last(CASE raisedAt \in {"usage", "invalid"} -> "settime refused"
                                    [] raisedAt = "none" /\ jobs[chat_id].once > 0
                                         -> "settime over one-off"
                                    [] OTHER -> "other")]
        /\ UNCHANGED <<today, compliments, runs, delivery, gen, step, firstSent, answers, loop>>

\* The process restarts (main.py lines 70-85): the queue of the old process
\* is gone with the invocations it had in flight, and one daily job is
\* registered for every activated record at its stored hour.
\* DatabaseManager() raising at line 71 ends the process with nothing
\* registered.
main(raises) ==
    /\ raises \in {"none", "DatabaseManager", "get_activated_users"}
    /\ jobs' = [c \in Chats |->
                 IF raises /= "DatabaseManager"
                    /\ c \in get_activated_users(user_settings, raises = "none")
                 THEN run_daily(NoJobs, c, user_settings[c].hour)[c]
                 ELSE NoJobs[c]]
    /\ hist' = [hist EXCEPT !.last = Last("other")]
    /\ UNCHANGED <<today, compliments, runs, user_settings, delivery, gen, step,
                   firstSent, answers, loop>>

\* The one-off job of /start becomes due: it leaves the queue and
\* send_compliment starts.
run_once_fires(chat_id) ==
    /\ jobs[chat_id].once > 0
    /\ jobs[chat_id].running < MaxRunning
    /\ jobs' = [jobs EXCEPT ![chat_id].once = @ - 1, ![chat_id].running = @ + 1]
    /\ hist' = [hist EXCEPT !.last = Last("other")]
    /\ UNCHANGED <<today, compliments, runs, user_settings, delivery, gen, step,
                   firstSent, answers, loop>>

\* A daily job of the chat becomes due: it stays in the queue and
\* send_compliment starts.
run_daily_fires(chat_id) ==
    /\ Len(jobs[chat_id].daily) > 0
    /\ jobs[chat_id].running < MaxRunning
    /\ jobs' = [jobs EXCEPT ![chat_id].running = @ + 1]
    /\ hist' = [hist EXCEPT !.last = Last("other")]
    /\ UNCHANGED <<today, compliments, runs, user_settings, delivery, gen, step,
                   firstSent, answers, loop>>

\* An invocation of send_compliment for the chat ends (jobs.py line 34
\* returns or raises).
send_compliment_ends(chat_id) ==
    /\ jobs[chat_id].running > 0
    /\ jobs' = [jobs EXCEPT ![chat_id].running = @ - 1]
    /\ hist' = [hist EXCEPT !.last = Last("other")]
    /\ UNCHANGED <<today, compliments, runs, user_settings, delivery, gen, step,
                   firstSent, answers, loop>>

\* A fresh deployment: no record, no job.
InitSched ==
    /\ today = 1
    /\ compliments = [k \in Keys |-> NoRow]
    /\ runs = [r \in Runs |-> IdleRun]
    /\ user_settings = [c \in Chats |-> NoUser]
    /\ delivery = NoDelivery
    /\ gen = IdleGen
    /\ step = NoStep
    /\ firstSent = NothingSent
    /\ answers = "text"
    /\ jobs = NoJobs
    /\ hist = NoHist
    /\ loop = NoLoop

\* The store calls of the command handlers and of main that can raise.
StoreCalls == {"DatabaseManager", "get_activated_users", "set_user_hour",
               "set_user_language", "set_user_activated"}
Raises == {"none"} \cup StoreCalls

NextSched ==
    \/ \E chat_id \in Chats, hourOk, langOk \in BOOLEAN, raises \in Raises :
          start(chat_id, hourOk, langOk, raises)
    \/ \E chat_id \in Chats, raises \in Raises : stop(chat_id, raises)
    \/ \E chat_id \in Chats, arg \in {"0", "8", "24"}, raises \in Raises :
          settime(chat_id, arg, raises)
    \/ \E chat_id \in Chats, arg \in {"en", "ru", "RU", "de"}, raises \in Raises :
          setlanguage(chat_id, arg, raises)
    \/ \E raises \in Raises : main(raises)
    \/ \E chat_id \in Chats : run_once_fires(chat_id)
    \/ \E chat_id \in Chats : run_daily_fires(chat_id)
    \/ \E chat_id \in Chats : send_compliment_ends(chat_id)

SpecSched == InitSched /\ [][NextSched]_vars

\* The commands of one chat, with every argument they are tried with, the
\* restarts and the fires of the chat's jobs; what the last step was is
\* recorded.
InitCmd ==
    /\ today = 1
    /\ compliments = [k \in Keys |-> NoRow]
    /\ runs = [r \in Runs |-> IdleRun]
    /\ user_settings = [c \in Chats |-> NoUser]
    /\ delivery = NoDelivery
    /\ gen = IdleGen
    /\ step = NoStep
    /\ firstSent = NothingSent
    /\ answers = "text"
    /\ jobs = NoJobs
    /\ hist = [NoHist EXCEPT !.last = "other"]
    /\ loop = NoLoop

NextCmd ==
    \/ \E hourOk, langOk \in BOOLEAN, raises \in Raises : start(1, hourOk, langOk, raises)
    \/ \E raises \in Raises : stop(1, raises)
    \/ \E arg \in SettimeArgs, raises \in Raises : settime(1, arg, raises)
    \/ \E arg \in LanguageArgs, raises \in Raises : setlanguage(1, arg, raises)
    \/ \E raises \in Raises : main(raises)
    \/ run_once_fires(1)
    \/ run_daily_fires(1)
    \/ send_compliment_ends(1)

SpecCmd == InitCmd /\ [][NextCmd]_vars

\* C13: after any sequence of /start, /settime, /stop and restarts, at most
\* one recurring daily delivery trigger is registered under a chat's name.
C13_SingleDailyTrigger ==
    \A c \in Chats : Len(jobs[c].daily) <= 1

\* /start re-registered the triggers of a chat whose hour /settime had
\* changed before: its one-off job is pending and its one daily job is at
\* the stored hour, which is not the default.
C13_Witness ==
    \E c \in Chats :
        /\ jobs[c].once = 1
        /\ user_settings[c].hour /= DefaultHour
        /\ jobs[c].daily = <<user_settings[c].hour>>

\* C21: after any sequence of /start, /stop, /settime and /setlanguage with
\* arbitrary arguments, every record has its hour in 0..23 and its language
\* in {en, ru}.
C21_RecordsInRange ==
    \A c \in Chats :
        user_settings[c].exists
            => ( /\ user_settings[c].hour \in 0..23
                 /\ user_settings[c].language \in {"en", "ru"} )

\* /settime and /setlanguage have both changed the record of a chat.
C21_Witness ==
    \E c \in Chats :
        /\ user_settings[c].exists
        /\ user_settings[c].hour = 0
        /\ user_settings[c].language = "ru"

\* C27 (as claimed): a step that is neither the end of an invocation nor a
\* restart of the process (which removes triggers among them) ends no
\* invocation of send_compliment in flight, and after /stop no delivery to
\* the chat starts until a later /start or /settime.
C27_CancelStopsFutureFires ==
    [][ /\ \/ \E c \in Chats : send_compliment_ends(c)
           \/ \E raises \in Raises : main(raises)
           \/ \A c \in Chats : jobs'[c].running >= jobs[c].running
        /\ \A c \in Chats :
             (hist.stopped[c] /= "no" /\ hist'.stopped[c] /= "no")
                => jobs'[c].running <= jobs[c].running ]_vars

\* C29 (as claimed): after any sequence of /start, /settime, /stop and
\* restarts, every activated record has a daily trigger at its stored hour.
C29_ActivatedHasTrigger ==
    \A c \in Chats :
        (user_settings[c].exists /\ user_settings[c].activated)
            => \E i \in 1..Len(jobs[c].daily) : jobs[c].daily[i] = user_settings[c].hour

\* C31: a /settime without an argument, with an argument that is no
\* integer or with an hour outside 0..23, and a /setlanguage without an
\* argument or with a language outside {en, ru}, leave every record and
\* every job of the queue as they were.
C31_RejectedChangesNothing ==
    [][ \/ (user_settings' = user_settings /\ jobs' = jobs)
        \/ \A c \in Chats, raises \in Raises :
              /\ \A arg \in {NoArgument, "eight", "-1", "24"} : ~settime(c, arg, raises)
              /\ \A arg \in {NoArgument, "de"} : ~setlanguage(c, arg, raises) ]_vars

\* /settime has just refused its argument for a chat; a subscriber who had
\* moved to hour 0 still has that hour and the daily job at it.
C31_Witness ==
    /\ hist.last = "settime refused"
    /\ \E c \in Chats :
          /\ user_settings[c].activated /\ user_settings[c].hour = 0
          /\ jobs[c].daily = <<0>>

C33_OneOffFires ==
    [][ \A c \in Chats :
          jobs'[c].once < jobs[c].once
            => \/ run_once_fires(c)
               \/ \E hourOk, langOk \in BOOLEAN, raises \in Raises :
                     start(c, hourOk, langOk, raises)
               \/ \E raises \in Raises : stop(c, raises)
               \/ \E arg \in SettimeArgs, raises \in Raises :
                     settime(c, arg, raises) ]_vars

\* C34: a chat whose record is not activated, or that has no record, has no
\* job in the queue under its name.
C34_TriggersOnlyWhileActivated ==
    \A c \in Chats :
        ~(user_settings[c].exists /\ user_settings[c].activated)
            => (jobs[c].once = 0 /\ jobs[c].daily = <<>>)

\* A subscriber has stopped and has no job left while another one is
\* activated with its daily job.
C34_Witness ==
    \E c, d \in Chats :
        /\ hist.stopped[c] = "ok"
        /\ user_settings[c].exists /\ ~user_settings[c].activated
        /\ jobs[c].once = 0 /\ jobs[c].daily = <<>>
        /\ user_settings[d].activated /\ Len(jobs[d].daily) = 1

time(hour, minute) == hour * 3600 + minute * 60

\* run_daily: the first fire of a daily job is at its time of day, today if
\* that is still ahead and tomorrow if not.
run_daily_first(at, now) == IF at > now THEN at ELSE at + DaySeconds

\* The language a generation trigger passes to generate_compliment
\* (generate_en and generate_ru, main.py lines 37-41).
language_of(t) ==
    IF t \in {"generate_compliment_en_init", "generate_compliment_en"} THEN "en"
    ELSE IF t \in {"generate_compliment_ru_init", "generate_compliment_ru"} THEN "ru"
    ELSE None

\* The values of telegram.jobs.first_run_delay, generate_hour and
\* generate_minute the configuration is tried with (the defaults of
\* main.py lines 32-34 among them), and the instants the process starts at.
FirstDelays == {0, 10}
GenerateHours == {0, 8}
GenerateMinutes == {0, 30}
StartInstants == {100, 50000}

\* main() (main.py lines 32-85) started at instant started: the four
\* generation jobs and the daily delivery job of an activated subscriber.
InitLoop ==
    /\ today = 1
    /\ compliments = [k \in Keys |-> NoRow]
    /\ runs = [r \in Runs |-> IdleRun]
    /\ user_settings = [c \in Chats |-> NoUser]
    /\ delivery = NoDelivery
    /\ gen = IdleGen
    /\ step = NoStep
    /\ firstSent = NothingSent
    /\ answers = "text"
    /\ jobs = NoJobs
    /\ hist = NoHist
    /\ \E started \in StartInstants, first_delay \in FirstDelays,
          generate_hour \in GenerateHours, generate_minute \in GenerateMinutes,
          hour \in Hours :
          loop = [NoLoop EXCEPT
                    !.now = started,
                    !.due = [t \in Triggers |->
                        CASE t = "generate_compliment_en_init" -> started + first_delay
                          [] t = "generate_compliment_en" ->
                                run_daily_first(time(generate_hour, generate_minute), started)
                          [] t = "generate_compliment_ru_init" ->
                                started + first_delay + InitOffset
                          [] t = "generate_compliment_ru" ->
                                run_daily_first(time(generate_hour, generate_minute), started)
                          [] OTHER -> run_daily_first(time(hour, 0), started)]]

\* Time passes up to the next instant a trigger is due at.
time_passes ==
    LET later == {loop.due[t] : t \in {u \in Triggers : loop.due[u] > loop.now}}
    IN  /\ later /= {}
        /\ \A t \in Triggers : loop.due[t] /= loop.now
        /\ LET next == CHOOSE i \in later : \A j \in later : i <= j
           IN  /\ next <= MaxDay * DaySeconds
               /\ loop' = [loop EXCEPT !.now = next]
        /\ UNCHANGED <<today, compliments, runs, user_settings, delivery, gen, step,
                       firstSent, answers, jobs, hist>>

\* The job queue finds trigger t due: its handler is submitted to the event
\* loop, a daily job is due again a day later and a one-off job never.
becomes_due(t) ==
    /\ loop.due[t] = loop.now
    /\ loop' = [loop EXCEPT
                  !.pending[t] = TRUE,
                  !.dueAt[t] = loop.now,
                  !.due[t] = IF t \in {"generate_compliment_en_init",
                                        "generate_compliment_ru_init"}
                             THEN Never ELSE @ + DaySeconds]
    /\ UNCHANGED <<today, compliments, runs, user_settings, delivery, gen, step,
                   firstSent, answers, jobs, hist>>

\* The event loop starts the handler of a pending trigger. The handlers are
\* coroutines of the one event loop run_polling drives (main.py line 87):
\* one starts only when none is executing.
handler_starts(t) ==
    /\ loop.pending[t]
    /\ loop.busy = "none"
    /\ loop' = [loop EXCEPT !.pending[t] = FALSE, !.busy = t]
    /\ UNCHANGED <<today, compliments, runs, user_settings, delivery, gen, step,
                   firstSent, answers, jobs, hist>>

\* generate_compliment returns (jobs.py lines 37-65). Its body has no await:
\* from its first line to its return it executes on the event loop, through
\* every call it makes.
generate_compliment_returns ==
    /\ loop.busy \in GenerationTriggers
    /\ loop' = [loop EXCEPT !.busy = "none"]
    /\ UNCHANGED <<today, compliments, runs, user_settings, delivery, gen, step,
                   firstSent, answers, jobs, hist>>

\* send_compliment reaches its await (jobs.py line 34) after the store
\* calls of lines 19-32, and gives the event loop back.
send_message_awaited ==
    /\ loop.busy = "send_compliment"
    /\ loop' = [loop EXCEPT !.busy = "none", !.awaiting = @ + 1]
    /\ UNCHANGED <<today, compliments, runs, user_settings, delivery, gen, step,
                   firstSent, answers, jobs, hist>>

\* send_message answers: the invocation resumes when the event loop is free
\* and returns.
send_message_done ==
    /\ loop.awaiting > 0
    /\ loop.busy = "none"
    /\ loop' = [loop EXCEPT !.awaiting = @ - 1]
    /\ UNCHANGED <<today, compliments, runs, user_settings, delivery, gen, step,
                   firstSent, answers, jobs, hist>>

NextLoop ==
    \/ time_passes
    \/ \E t \in Triggers : becomes_due(t)
    \/ \E t \in Triggers : handler_starts(t)
    \/ generate_compliment_returns
    \/ send_message_awaited
    \/ send_message_done

SpecLoop == InitLoop /\ [][NextLoop]_vars

\* C23 (as claimed): the startup triggers of "en" and "ru" never become due
\* at the same instant, and neither do their daily triggers.
C23_StaggeredStart ==
    /\ loop.dueAt["generate_compliment_en_init"] /= Never
          => loop.dueAt["generate_compliment_en_init"]
                /= loop.dueAt["generate_compliment_ru_init"]
    /\ loop.dueAt["generate_compliment_en"] /= Never
          => loop.dueAt["generate_compliment_en"]
                /= loop.dueAt["generate_compliment_ru"]

\* C24 (as claimed): while the handler of a generation trigger is in flight,
\* a pending delivery trigger or generation trigger of the other language
\* can start its handler.
C24_OwnTaskPerTrigger ==
    \A g \in GenerationTriggers, t \in Triggers :
        ( /\ language_of(t) /= language_of(g)
          /\ loop.busy = g
          /\ loop.pending[t] )
            => ENABLED handler_starts(t)

====
